---- MODULE Spec2Model ----
(***************************************************************************)
(* Model of the xelis mining coordination engine:                          *)
(*   - xelis_common/src/difficulty.rs : target conversion, target check    *)
(*     and the difficulty retarget formula (pure functions);               *)
(*   - xelis_miner/src/main.rs : worker threads, the broadcast job         *)
(*     channel, the mpsc solution channel and the communication task.      *)
(*                                                                         *)
(* Unsigned integers wider than TLC's integers (u64, u128, BigUint) are    *)
(* sequences of bytes, most significant byte first, exactly as             *)
(* BigUint::from_bytes_be reads a Hash.  A u64 is 8 bytes, a u128 is 16    *)
(* bytes, a BigUint is normalised (no leading zero byte, zero is <<>>).    *)
(***************************************************************************)
EXTENDS Integers, Sequences, FiniteSets, TLC

\* ------------------------------------------------------------------------
\* Byte-sequence arithmetic (num_bigint::BigUint and the fixed-width
\* integers of difficulty.rs)
\* ------------------------------------------------------------------------

Zeros(n) == [i \in 1..n |-> 0]

Front(b) == SubSeq(b, 1, Len(b) - 1)

RECURSIVE Strip(_)
\* BigUint normal form: no leading zero byte
Strip(b) ==
    IF b = <<>> THEN <<>>
    ELSE IF Head(b) = 0 THEN Strip(Tail(b)) ELSE b

\* a fixed-width unsigned integer of w bytes holding the value of b
Pad(b, w) == Zeros(w - Len(b)) \o b

\* truncation to the low w bytes (a wrapping cast or a wrapping operation)
Low(b, w) == IF Len(b) <= w THEN Pad(b, w) ELSE SubSeq(b, Len(b) - w + 1, Len(b))

RECURSIVE FromInt(_)
\* the bytes of a small non-negative integer
FromInt(n) == IF n = 0 THEN <<>> ELSE Append(FromInt(n \div 256), n % 256)

RECURSIVE ToInt(_)
\* the value of a byte sequence known to be small
ToInt(b) == IF b = <<>> THEN 0 ELSE ToInt(Front(b)) * 256 + b[Len(b)]

RECURSIVE LexLess(_, _)
LexLess(x, y) ==
    /\ x # <<>>
    /\ \/ Head(x) < Head(y)
       \/ Head(x) = Head(y) /\ LexLess(Tail(x), Tail(y))

\* a < b and a <= b on unsigned integers of any width
BigLess(a, b) ==
    LET x == Strip(a)
        y == Strip(b)
    IN  IF Len(x) # Len(y) THEN Len(x) < Len(y) ELSE LexLess(x, y)

BigLe(a, b) == ~BigLess(b, a)

RECURSIVE MulLoop(_, _, _, _)
MulLoop(b, m, carry, acc) ==
    IF b = <<>> THEN FromInt(carry) \o acc
    ELSE LET cur == b[Len(b)] * m + carry
         IN  MulLoop(Front(b), m, cur \div 256, <<cur % 256>> \o acc)

\* b * m, exact (the result grows as needed); m is a small integer
MulSmall(b, m) == MulLoop(b, m, 0, <<>>)

RECURSIVE DivLoop(_, _, _, _)
DivLoop(b, d, r, q) ==
    IF b = <<>> THEN [q |-> q, r |-> r]
    ELSE LET cur == r * 256 + Head(b)
         IN  DivLoop(Tail(b), d, cur % d, Append(q, cur \div d))

\* floor(b / d) and b mod d by long division; d is a small positive integer
DivSmall(b, d) == DivLoop(b, d, 0, <<>>)

RECURSIVE SubLoop(_, _, _, _)
SubLoop(a, b, borrow, acc) ==
    IF a = <<>> THEN [bytes |-> acc, borrow |-> borrow]
    ELSE LET cur == a[Len(a)] - b[Len(b)] - borrow
         IN  SubLoop(Front(a), Front(b), IF cur < 0 THEN 1 ELSE 0,
                     <<(cur + 256) % 256>> \o acc)

\* a - b on two unsigned integers of the same width, modulo 2^(8*width);
\* borrow = 1 when b > a
WrappingSub(a, b) == SubLoop(a, b, 0, <<>>)

RECURSIVE AddLoop(_, _, _)
AddLoop(a, carry, acc) ==
    IF a = <<>> THEN [bytes |-> acc, carry |-> carry]
    ELSE LET cur == a[Len(a)] + carry
         IN  AddLoop(Front(a), cur \div 256, <<cur % 256>> \o acc)

\* a + n on a fixed-width unsigned integer, n small; carry # 0 on overflow
AddSmall(a, n) == AddLoop(a, n, <<>>)

\* ------------------------------------------------------------------------
\* State
\* ------------------------------------------------------------------------

VARIABLES
    \* the build: TRUE when arithmetic overflow panics (overflow-checks on,
    \* the debug profile), FALSE when it wraps (the release profile)
    overflow_checks,
    \* the arguments the difficulty functions are applied to
    din,
    \* the result of difficulty_to_big(din.difficulty), or NoCall
    big_result,
    \* the result of check_difficulty(din.hash, din.difficulty), or NoCall
    check_result,
    \* the calls calculate_difficulty(din.parent, new, din.prev) made so far:
    \* a sequence of [new_timestamp, result]
    calc_calls

dvars == <<overflow_checks, din, big_result, check_result, calc_calls>>

VARIABLES
    \* main: "prompt" while run_prompt runs, "exited" after lines 138-145
    main_pc,
    \* communication_task: "connect", "backoff", "connected" or "aborted"
    task_pc,
    \* static WEBSOCKET_CONNECTED
    WEBSOCKET_CONNECTED,
    \* static CURRENT_HEIGHT
    CURRENT_HEIGHT,
    \* static BLOCKS_FOUND, static BLOCKS_REJECTED
    BLOCKS_FOUND,
    BLOCKS_REJECTED,
    \* the broadcast channel: one entry per ThreadNotification sent, in send
    \* order; the channel retains the last BroadcastCapacity of them
    job_sent,
    \* job_receiver of each thread: the number of notifications sent before
    \* the one it reads next (Receiver::next)
    job_next,
    \* history: while the task waits to connect again, what made it wait
    \* ("connect_failed", "bad_template" or "loop_ended"); "none" otherwise
    retry_cause,
    \* the mpsc channel: the blocks queued, and whether block_receiver exists
    block_queue,
    block_receiver_open,
    \* start_thread, per thread id: the position in the loop, the local
    \* block, the expected_difficulty of its job, the local hash of the block
    thread_pc,
    block,
    expected_difficulty,
    block_hash,
    \* history, per thread id: the positions in job_sent of the notifications
    \* try_recv returned, the values of the last extra-nonce byte under which
    \* it hashed, and the loop iterations ('main or while) it began after
    \* Exit was sent
    received,
    hashed_extra_nonce,
    iterations_after_exit,
    \* history, per thread id: the calls of blocking_send that returned Ok,
    \* counted in the behaviours that keep this history
    blocks_sent

counters == <<BLOCKS_FOUND, BLOCKS_REJECTED>>

mvars == <<main_pc, task_pc, WEBSOCKET_CONNECTED, CURRENT_HEIGHT, counters,
           retry_cause,
           job_sent, job_next, block_queue, block_receiver_open,
           thread_pc, block, expected_difficulty, block_hash,
           received, hashed_extra_nonce, iterations_after_exit, blocks_sent>>

VARIABLES
    \* the thread count of main: config.num_threads, num_cpus::get() and the
    \* value of threads at line 101, or NoThreads before it is computed
    threads_call

VARIABLES
    \* the daemon: the difficulties it sends with its jobs
    daemon_difficulties,
    \* whether the behaviour keeps the history blocks_sent
    blocks_sent_kept

evars == <<daemon_difficulties, blocks_sent_kept>>

VARIABLES
    \* NetworkHandler.task: the JoinHandle in the Mutex, or NoHandle (None)
    task,
    \* the tasks tokio::spawn(start_syncing) has created, in spawn order:
    \* "running", "finished" (start_syncing returned) or "aborted"
    spawned,
    \* per caller of start() and stop(): where it is in its call, the
    \* JoinHandle it has spawned and not yet stored, the calls it has made
    \* and what its last call returned
    caller_pc,
    caller_handle,
    calls_made,
    returned

nvars == <<task, spawned, caller_pc, caller_handle, calls_made, returned>>

\* the variables no step of the miner changes: those of the functions
\* applied to sampled arguments, the daemon's and the wallet's
fvars == <<dvars, threads_call, evars, nvars>>

vars == <<fvars, mvars>>

\* ------------------------------------------------------------------------
\* xelis_common/src/difficulty.rs
\* ------------------------------------------------------------------------

\* config::BLOCK_TIME_MILLIS and config::MINIMUM_DIFFICULTY
BLOCK_TIME_MILLIS == 15000
MINIMUM_DIFFICULTY == BLOCK_TIME_MILLIS * 10

\* Result<BigUint, DifficultyError>, or the panic of the thread
BigOk(v) == [tag |-> "Ok", val |-> v, err |-> ""]
BigErr(e) == [tag |-> "Err", val |-> <<>>, err |-> e]
BigPanic(m) == [tag |-> "Panic", val |-> <<>>, err |-> m]

\* Result<bool, DifficultyError>, or the panic of the thread
BoolOk(v) == [tag |-> "Ok", val |-> v, err |-> ""]
BoolErr(e) == [tag |-> "Err", val |-> FALSE, err |-> e]
BoolPanic(m) == [tag |-> "Panic", val |-> FALSE, err |-> m]

\* u64, or the panic of the thread
Value(v) == [tag |-> "Value", val |-> v, err |-> ""]
Panic(m) == [tag |-> "Panic", val |-> <<>>, err |-> m]

NoCall == [tag |-> "None", val |-> <<>>, err |-> ""]

\* ToBigUint::to_biguint(&difficulty): Some(v) for every u64
to_biguint(difficulty) == FromInt(difficulty)

\* BigUint::one() << 256
one_lsh_256 == <<1>> \o Zeros(32)

\* BigUint / BigUint: floor division; a zero divisor panics
BigDiv(n, d) ==
    IF Strip(d) = <<>> THEN BigPanic("attempt to divide by zero")
    ELSE BigOk(Strip(DivSmall(n, ToInt(Strip(d))).q))

\* difficulty_to_big dividing the largest 256-bit value instead of 2^256
difficulty_to_big_MaxValue(difficulty) ==
    IF difficulty = 0 THEN BigErr("DifficultyCannotBeZero")
    ELSE BigDiv([i \in 1..32 |-> 255], to_biguint(difficulty))

\* difficulty_to_big without the test for zero
difficulty_to_big_NoZeroTest(difficulty) ==
    BigDiv(one_lsh_256, to_biguint(difficulty))

difficulty_to_big(difficulty) ==
    IF difficulty = 0 THEN BigErr("DifficultyCannotBeZero")
    ELSE LET big_diff == to_biguint(difficulty)
         IN  BigDiv(one_lsh_256, big_diff)

\* BigUint::from_bytes_be(hash.as_bytes())
hash_to_big(hash) == Strip(hash)

\* check_difficulty comparing with < instead of <=
check_difficulty_Strict(hash, difficulty) ==
    LET big_diff == difficulty_to_big(difficulty)
    IN  IF big_diff.tag = "Err" THEN BoolErr(big_diff.err)
        ELSE IF big_diff.tag = "Panic" THEN BoolPanic(big_diff.err)
        ELSE BoolOk(BigLess(hash_to_big(hash), big_diff.val))

check_difficulty(hash, difficulty) ==
    LET big_diff == difficulty_to_big(difficulty)
    IN  IF big_diff.tag = "Err" THEN BoolErr(big_diff.err)
        ELSE IF big_diff.tag = "Panic" THEN BoolPanic(big_diff.err)
        ELSE LET big_hash == hash_to_big(hash)
             IN  BoolOk(BigLe(big_hash, big_diff.val))

\* (E.powf((1f64 - solve_time as f64 / BLOCK_TIME_MILLIS as f64) / M)
\*    * 10000f64) as i64
\* with E = 2.71828182845905 and M = 8, evaluated in IEEE-754 double
\* precision at the solve times the model reaches (TLA+ has no floating
\* point; the values are those of the expression above)
EasyPartTable ==
    (0 :> 11331) @@ (1 :> 11331) @@ (1000 :> 11237) @@ (1001 :> 11237) @@
    (7500 :> 10644) @@ (8500 :> 10556) @@ (8501 :> 10556) @@
    (15000 :> 10000) @@ (16000 :> 9917) @@ (16001 :> 9916) @@
    (22500 :> 9394) @@ (23500 :> 9316) @@ (23501 :> 9316) @@
    (30000 :> 8824)

easypart_of(solve_time) == EasyPartTable[solve_time]

\* i64::MIN as an unsigned magnitude, 2^63
TwoPow63 == <<128>> \o Zeros(7)

IsNegativeI64(a) == a[1] >= 128

\* the magnitude of an i64 held in two's complement
MagnitudeI64(a) == IF IsNegativeI64(a) THEN WrappingSub(Zeros(8), a).bytes ELSE a

\* a * m on i64, m > 0: the wrapped product and whether the exact product
\* leaves the i64 range
MulI64(a, m) ==
    LET exact == MulSmall(MagnitudeI64(a), m)
    IN  [bytes    |-> Low(MulSmall(a, m), 8),
         overflow |-> IF IsNegativeI64(a) THEN BigLess(TwoPow63, exact)
                      ELSE BigLe(TwoPow63, exact)]

\* a / d on i64, d > 0: the quotient truncated toward zero
DivI64(a, d) ==
    LET q == Low(DivSmall(MagnitudeI64(a), d).q, 8)
    IN  IF IsNegativeI64(a) THEN WrappingSub(Zeros(8), q).bytes ELSE q

\* calculate_difficulty clamping a long solve time to one block time
calculate_difficulty_ClampOne(parent_timestamp, new_timestamp, previous_difficulty) ==
    LET sub        == WrappingSub(new_timestamp, parent_timestamp)
        two_blocks == Pad(FromInt(BLOCK_TIME_MILLIS * 2), 16)
        solve_time == IF BigLess(two_blocks, sub.bytes)
                      THEN Pad(FromInt(BLOCK_TIME_MILLIS), 16) ELSE sub.bytes
        easypart   == easypart_of(ToInt(Strip(solve_time)))
        product    == MulI64(previous_difficulty, easypart)
        diff       == DivI64(product.bytes, 10000)
        minimum    == Pad(FromInt(MINIMUM_DIFFICULTY), 8)
    IN  IF sub.borrow = 1 /\ overflow_checks
            THEN Panic("attempt to subtract with overflow")
        ELSE IF product.overflow /\ overflow_checks
            THEN Panic("attempt to multiply with overflow")
        ELSE IF BigLess(diff, minimum) THEN Value(minimum)
        ELSE Value(diff)

calculate_difficulty(parent_timestamp, new_timestamp, previous_difficulty) ==
    LET sub        == WrappingSub(new_timestamp, parent_timestamp)
        two_blocks == Pad(FromInt(BLOCK_TIME_MILLIS * 2), 16)
        solve_time == IF BigLess(two_blocks, sub.bytes) THEN two_blocks ELSE sub.bytes
        easypart   == easypart_of(ToInt(Strip(solve_time)))
        \* previous_difficulty as i64 keeps the bits
        product    == MulI64(previous_difficulty, easypart)
        \* ... as u64 keeps the bits
        diff       == DivI64(product.bytes, 10000)
        minimum    == Pad(FromInt(MINIMUM_DIFFICULTY), 8)
    IN  IF sub.borrow = 1 /\ overflow_checks
            THEN Panic("attempt to subtract with overflow")
        ELSE IF product.overflow /\ overflow_checks
            THEN Panic("attempt to multiply with overflow")
        ELSE IF BigLess(diff, minimum) THEN Value(minimum)
        ELSE Value(diff)

\* a 32-byte digest: first byte, 30 equal middle bytes, last byte
Digest(hi, fill, lo) == <<hi>> \o [i \in 1..30 |-> fill] \o <<lo>>

\* ------------------------------------------------------------------------
\* xelis_miner/src/main.rs
\* ------------------------------------------------------------------------

\* the number of mining threads (threads, after lines 90-99)
threads == 2
\* NewJob messages the daemon sends in one run
MaxJobs == 2
\* nonce increments explored on one job
MaxNonce == 1
\* BlockAccepted and BlockRejected messages followed in a run
MaxReplies == 1

\* for id in 0..threads
ThreadIds == 0..(threads - 1)

RECURSIVE PowerOfTwoFrom(_, _)
PowerOfTwoFrom(p, n) == IF p >= n THEN p ELSE PowerOfTwoFrom(2 * p, n)

\* broadcast::channel::<ThreadNotification>(threads as usize): tokio rounds
\* the requested capacity up to a power of two
BroadcastCapacity == PowerOfTwoFrom(1, threads)

\* a channel of blocks with room for one block less
BlockChannelCapacity_OneLess == threads - 1

\* mpsc::channel::<Block>(threads as usize)
BlockChannelCapacity == threads

\* Block, as far as the miner reads or writes it: the height, the last byte
\* of extra_nonce, the nonce, and whether the timestamp is the template's or
\* one read from the clock by a thread
NoBlock == [height |-> 0, extra_nonce |-> 0, nonce |-> 0, timestamp |-> "none"]
Template(height) ==
    [height |-> height, extra_nonce |-> 255, nonce |-> 0, timestamp |-> "template"]

\* enum ThreadNotification
NewJob(job, difficulty) == [kind |-> "NewJob", job |-> job, difficulty |-> difficulty]
Exit == [kind |-> "Exit", job |-> NoBlock, difficulty |-> 0]

\* the difficulties the daemon sends with a job: one that is an error and
\* one whose target half of the digests meet
JobDifficulties == {0, 2}

\* a daemon that sends the difficulty every digest meets, and 2
TrivialDifficulties == {1, 2}

AllDifficulties == JobDifficulties \cup TrivialDifficulties

\* block.hash(): the hash function is opaque; each hash is one of two digests,
\* one below every target sampled and the largest digest
HashDigests == {Digest(0, 0, 1), Digest(255, 255, 255)}

NoHash == <<>>

ExitSent == \E i \in 1..Len(job_sent) : job_sent[i].kind = "Exit"

JobsSent == Len(job_sent) - (IF ExitSent THEN 1 ELSE 0)

\* a slot of the channel's buffer that a later notification has overwritten
Overwritten == [kind |-> "Overwritten", job |-> NoBlock, difficulty |-> 0]

\* job_sender.send(notification): the notification takes the next position;
\* the buffer keeps the last BroadcastCapacity notifications
send(notification) ==
    LET all == Append(job_sent, notification)
    IN  [i \in 1..Len(all) |->
            IF i <= Len(all) - BroadcastCapacity THEN Overwritten ELSE all[i]]

\* try_recv resuming at the newest notification after a lag
try_recv_SkipToNewest(id) ==
    LET tail == Len(job_sent)
    IN  IF job_next[id] = tail
            THEN [tag |-> "Empty", next |-> job_next[id]]
        ELSE IF job_next[id] < tail - BroadcastCapacity
            THEN [tag |-> "Lagged", next |-> tail - 1]
        ELSE [tag |-> "Ok", next |-> job_next[id] + 1]

\* job_receiver.try_recv(): Empty, Lagged (the cursor moves to the oldest
\* notification retained) or Ok (the notification at the cursor)
try_recv(id) ==
    LET tail == Len(job_sent)
    IN  IF job_next[id] = tail
            THEN [tag |-> "Empty", next |-> job_next[id]]
        ELSE IF job_next[id] < tail - BroadcastCapacity
            THEN [tag |-> "Lagged", next |-> tail - BroadcastCapacity]
        ELSE [tag |-> "Ok", next |-> job_next[id] + 1]

\* job_receiver.is_empty()
is_empty(id) == Len(job_sent) - job_next[id] = 0

\* the job taken as it is, the extra nonce left as the daemon sent it
set_extra_nonce_Forgotten(job, id) == job

\* block.extra_nonce[EXTRA_NONCE_SIZE - 1] = id
set_extra_nonce(job, id) == [job EXCEPT !.extra_nonce = id]

\* Exit taken as one more turn of the loop
break_main_Continue(id) == "poll"

\* ThreadNotification::Exit => break 'main (lines 285-288, 334)
break_main(id) == "stopped"

\* where the thread goes after a hash: the while condition at lines 298-304
\* an error of check_difficulty ending the thread
while_condition_ErrorStops(digest, difficulty) ==
    LET r == check_difficulty(digest, difficulty)
    IN  IF r.tag = "Err" THEN "stopped"
        ELSE IF r.tag = "Panic" THEN "panicked"
        ELSE IF r.val THEN "send"
        ELSE "loop_empty"

while_condition(digest, difficulty) ==
    LET r == check_difficulty(digest, difficulty)
    IN  IF r.tag = "Err" THEN "poll"
        ELSE IF r.tag = "Panic" THEN "panicked"
        ELSE IF r.val THEN "send"
        ELSE "loop_empty"

\* the while condition for the digests and difficulties that occur
WhileConditions ==
    [digest \in HashDigests, difficulty \in AllDifficulties |->
        while_condition(digest, difficulty)]

after_check(digest, difficulty) == WhileConditions[digest, difficulty]

\* check_difficulty(&hash, expected_difficulty) at line 298 for the digests
\* and difficulties that occur
CheckResults ==
    [digest \in HashDigests, difficulty \in AllDifficulties |->
        check_difficulty(digest, difficulty)]

CountIteration(id) ==
    iterations_after_exit' =
        IF ExitSent THEN [iterations_after_exit EXCEPT ![id] = @ + 1]
        ELSE iterations_after_exit

\* The locals block and hash and the job's expected_difficulty are assigned
\* on every NewJob before they are read; once the thread is back at the top
\* of 'main they are recorded as NoBlock, 0 and NoHash.
\* block = job; set the extra nonce; hash = block.hash() (lines 291-297), or
\* block.nonce += 1; ...; hash = block.hash() (lines 310-313), then the
\* while condition
Hashed(id, new_block, difficulty, digest) ==
    LET pc == after_check(digest, difficulty)
    IN  /\ thread_pc' = [thread_pc EXCEPT ![id] = pc]
        /\ hashed_extra_nonce' =
             [hashed_extra_nonce EXCEPT ![id] = @ \cup {new_block.extra_nonce}]
        /\ IF pc = "poll"
           THEN /\ block' = [block EXCEPT ![id] = NoBlock]
                /\ expected_difficulty' = [expected_difficulty EXCEPT ![id] = 0]
                /\ block_hash' = [block_hash EXCEPT ![id] = NoHash]
           ELSE /\ block' = [block EXCEPT ![id] = new_block]
                /\ expected_difficulty' = [expected_difficulty EXCEPT ![id] = difficulty]
                /\ block_hash' = [block_hash EXCEPT ![id] = digest]

\* continue 'main
ContinueMain(id) ==
    /\ thread_pc' = [thread_pc EXCEPT ![id] = "poll"]
    /\ block' = [block EXCEPT ![id] = NoBlock]
    /\ expected_difficulty' = [expected_difficulty EXCEPT ![id] = 0]
    /\ block_hash' = [block_hash EXCEPT ![id] = NoHash]

task_vars == <<main_pc, task_pc, WEBSOCKET_CONNECTED, CURRENT_HEIGHT, job_sent,
               block_receiver_open, retry_cause>>

job_vars == <<block, expected_difficulty, block_hash>>

\* block_sender.blocking_send returns at once when block_receiver is gone
\* and otherwise when the channel has room (line 316)
blocking_send_returns == block_receiver_open => Len(block_queue) < BlockChannelCapacity

\* the search of a thread with nothing pending is followed for MaxNonce
\* increments of the nonce
SearchFollowed(id) == is_empty(id) => block[id].nonce < MaxNonce

\* a job received while WEBSOCKET_CONNECTED is false left unhashed
Poll_NeedsConnection(id) ==
    /\ thread_pc[id] = "poll"
    /\ LET r == try_recv(id)
       IN  /\ job_next' = [job_next EXCEPT ![id] = r.next]
           /\ CountIteration(id)
           /\ IF r.tag = "Ok"
              THEN LET message == job_sent[r.next]
                   IN  /\ received' = [received EXCEPT ![id] = Append(@, r.next)]
                       /\ IF message.kind = "Exit"
                          THEN /\ thread_pc' = [thread_pc EXCEPT ![id] = break_main(id)]
                               /\ UNCHANGED <<job_vars, hashed_extra_nonce>>
                          ELSE IF ~WEBSOCKET_CONNECTED
                          THEN UNCHANGED <<thread_pc, job_vars, hashed_extra_nonce>>
                          ELSE \E digest \in HashDigests :
                                  Hashed(id, set_extra_nonce(message.job, id),
                                         message.difficulty, digest)
              ELSE UNCHANGED <<thread_pc, received, job_vars, hashed_extra_nonce>>
    /\ UNCHANGED <<task_vars, block_queue>>
    /\ UNCHANGED counters
    /\ UNCHANGED fvars
    /\ UNCHANGED blocks_sent

\* lines 283-297 and 326-332: one turn of 'main up to the first hash of a
\* job; when try_recv gave no notification the thread reads
\* WEBSOCKET_CONNECTED, sleeps 100 ms when it is false, and is back at the
\* top of 'main
Poll(id) ==
    /\ thread_pc[id] = "poll"
    /\ LET r == try_recv(id)
       IN  /\ job_next' = [job_next EXCEPT ![id] = r.next]
           /\ CountIteration(id)
           /\ IF r.tag = "Ok"
              THEN LET message == job_sent[r.next]
                   IN  /\ received' = [received EXCEPT ![id] = Append(@, r.next)]
                       /\ IF message.kind = "Exit"
                          THEN /\ thread_pc' = [thread_pc EXCEPT ![id] = break_main(id)]
                               /\ UNCHANGED <<job_vars, hashed_extra_nonce>>
                          ELSE \E digest \in HashDigests :
                                  Hashed(id, set_extra_nonce(message.job, id),
                                         message.difficulty, digest)
              ELSE UNCHANGED <<thread_pc, received, job_vars, hashed_extra_nonce>>
    /\ UNCHANGED <<task_vars, block_queue>>
    /\ UNCHANGED counters
    /\ UNCHANGED fvars
    /\ UNCHANGED blocks_sent

\* the search going on without a look at the receiver
LoopEmpty_NoCheck(id) ==
    /\ thread_pc[id] = "loop_empty"
    /\ block[id].nonce < MaxNonce
    /\ thread_pc' = [thread_pc EXCEPT ![id] = "loop_connected"]
    /\ UNCHANGED job_vars
    /\ CountIteration(id)
    /\ UNCHANGED <<task_vars, block_queue, job_next, received, hashed_extra_nonce>>
    /\ UNCHANGED counters
    /\ UNCHANGED fvars
    /\ UNCHANGED blocks_sent

\* line 306, first operand: the hash did not meet the target; is a
\* notification pending?  (The search is followed for MaxNonce increments.)
LoopEmpty(id) ==
    /\ thread_pc[id] = "loop_empty"
    /\ SearchFollowed(id)
    /\ IF ~is_empty(id)
       THEN ContinueMain(id)
       ELSE /\ thread_pc' = [thread_pc EXCEPT ![id] = "loop_connected"]
            /\ UNCHANGED job_vars
    /\ CountIteration(id)
    /\ UNCHANGED <<task_vars, block_queue, job_next, received, hashed_extra_nonce>>
    /\ UNCHANGED counters
    /\ UNCHANGED fvars
    /\ UNCHANGED blocks_sent

\* line 306, second operand, and lines 310-313 with the next evaluation of
\* the while condition
LoopConnected(id) ==
    /\ thread_pc[id] = "loop_connected"
    /\ IF ~WEBSOCKET_CONNECTED
       THEN /\ ContinueMain(id)
            /\ UNCHANGED hashed_extra_nonce
       ELSE \E digest \in HashDigests :
               Hashed(id, [block[id] EXCEPT !.nonce = @ + 1, !.timestamp = "now"],
                      expected_difficulty[id], digest)
    /\ UNCHANGED <<task_vars, block_queue, job_next, received, iterations_after_exit>>
    /\ UNCHANGED counters
    /\ UNCHANGED fvars
    /\ UNCHANGED blocks_sent

\* blocks_sent after one more call of blocking_send by thread id returned Ok
Counted(id) ==
    IF blocks_sent_kept THEN [blocks_sent EXCEPT ![id] = @ + 1] ELSE blocks_sent

\* a failed blocking_send ending the thread
Send_FailureStops(id) ==
    /\ thread_pc[id] = "send"
    /\ blocking_send_returns
    /\ IF block_receiver_open
       THEN /\ block_queue' = Append(block_queue, block[id])
            /\ blocks_sent' = Counted(id)
            /\ ContinueMain(id)
       ELSE /\ thread_pc' = [thread_pc EXCEPT ![id] = "stopped"]
            /\ UNCHANGED <<block_queue, blocks_sent, job_vars>>
    /\ UNCHANGED <<task_vars, job_next, received, hashed_extra_nonce,
                   iterations_after_exit>>
    /\ UNCHANGED counters
    /\ UNCHANGED fvars

\* the search of the job going on after its block was sent
Send_KeepsJob(id) ==
    /\ thread_pc[id] = "send"
    /\ blocking_send_returns
    /\ IF block_receiver_open
       THEN /\ block_queue' = Append(block_queue, block[id])
            /\ blocks_sent' = Counted(id)
       ELSE UNCHANGED <<block_queue, blocks_sent>>
    /\ thread_pc' = [thread_pc EXCEPT ![id] = "loop_empty"]
    /\ UNCHANGED job_vars
    /\ UNCHANGED <<task_vars, job_next, received, hashed_extra_nonce,
                   iterations_after_exit>>
    /\ UNCHANGED counters
    /\ UNCHANGED fvars

\* the block sent with one more increment of the nonce than was hashed
Send_NextNonce(id) ==
    /\ thread_pc[id] = "send"
    /\ blocking_send_returns
    /\ IF block_receiver_open
       THEN /\ block_queue' = Append(block_queue, [block[id] EXCEPT !.nonce = @ + 1])
            /\ blocks_sent' = Counted(id)
       ELSE UNCHANGED <<block_queue, blocks_sent>>
    /\ ContinueMain(id)
    /\ UNCHANGED <<task_vars, job_next, received, hashed_extra_nonce,
                   iterations_after_exit>>
    /\ UNCHANGED counters
    /\ UNCHANGED fvars

\* lines 315-323: block_sender.blocking_send(block) waits while the channel
\* is full and fails once block_receiver is gone; either way, and whatever
\* WEBSOCKET_CONNECTED is at line 321, the thread is back at the top of 'main
Send(id) ==
    /\ thread_pc[id] = "send"
    /\ blocking_send_returns
    /\ IF block_receiver_open
       THEN /\ block_queue' = Append(block_queue, block[id])
            /\ blocks_sent' = Counted(id)
       ELSE UNCHANGED <<block_queue, blocks_sent>>
    /\ ContinueMain(id)
    /\ UNCHANGED <<task_vars, job_next, received, hashed_extra_nonce,
                   iterations_after_exit>>
    /\ UNCHANGED counters
    /\ UNCHANGED fvars

thread_vars == <<job_next, thread_pc, job_vars, received, hashed_extra_nonce,
                 iterations_after_exit, blocks_sent>>

\* the connected loop entered without the store of line 198
ConnectOk_NoStore ==
    /\ task_pc = "connect"
    /\ task_pc' = "connected"
    /\ UNCHANGED <<main_pc, WEBSOCKET_CONNECTED, CURRENT_HEIGHT, job_sent,
                   block_receiver_open, block_queue, thread_vars, retry_cause>>
    /\ UNCHANGED counters
    /\ UNCHANGED fvars

\* lines 180-199: connect_async succeeds with a good status
ConnectOk ==
    /\ task_pc = "connect"
    /\ WEBSOCKET_CONNECTED' = TRUE
    /\ task_pc' = "connected"
    /\ UNCHANGED <<main_pc, CURRENT_HEIGHT, job_sent, block_receiver_open,
                   block_queue, thread_vars, retry_cause>>
    /\ UNCHANGED counters
    /\ UNCHANGED fvars

\* lines 183-196: connect_async fails, or answers with a client or server error
ConnectFail ==
    /\ task_pc = "connect"
    /\ task_pc' = "backoff"
    /\ retry_cause' = "connect_failed"
    /\ UNCHANGED <<main_pc, WEBSOCKET_CONNECTED, CURRENT_HEIGHT, job_sent,
                   block_receiver_open, block_queue, thread_vars>>
    /\ UNCHANGED counters
    /\ UNCHANGED fvars

\* the task returning after the sleep
Backoff_GivesUp ==
    /\ task_pc = "backoff"
    /\ task_pc' = "aborted"
    /\ retry_cause' = "none"
    /\ UNCHANGED <<main_pc, WEBSOCKET_CONNECTED, CURRENT_HEIGHT, job_sent,
                   block_receiver_open, block_queue, thread_vars>>
    /\ UNCHANGED counters
    /\ UNCHANGED fvars

\* lines 186, 194, 229: the sleep of 10 s ends
Backoff ==
    /\ task_pc = "backoff"
    /\ task_pc' = "connect"
    /\ retry_cause' = "none"
    /\ UNCHANGED <<main_pc, WEBSOCKET_CONNECTED, CURRENT_HEIGHT, job_sent,
                   block_receiver_open, block_queue, thread_vars>>
    /\ UNCHANGED counters
    /\ UNCHANGED fvars

\* the job sent on with CURRENT_HEIGHT left as it was
HandleNewJob_HeightKept ==
    /\ task_pc = "connected"
    /\ JobsSent < MaxJobs
    /\ \E difficulty \in daemon_difficulties :
          job_sent' = send(NewJob(Template(JobsSent + 1), difficulty))
    /\ UNCHANGED <<main_pc, task_pc, WEBSOCKET_CONNECTED, CURRENT_HEIGHT,
                   block_receiver_open, block_queue, thread_vars, retry_cause>>
    /\ UNCHANGED counters
    /\ UNCHANGED fvars

\* lines 203-204, 238-246: a NewJob message with a template that decodes
HandleNewJob ==
    /\ task_pc = "connected"
    /\ JobsSent < MaxJobs
    /\ \E difficulty \in daemon_difficulties :
          LET job == Template(JobsSent + 1)
          IN  /\ CURRENT_HEIGHT' = job.height
              /\ job_sent' = send(NewJob(job, difficulty))
    /\ UNCHANGED <<main_pc, task_pc, WEBSOCKET_CONNECTED, block_receiver_open,
                   block_queue, thread_vars, retry_cause>>
    /\ UNCHANGED counters
    /\ UNCHANGED fvars

\* a template that does not decode sent on to the threads as it is
HandleUndecodableJob_Forwarded ==
    /\ task_pc = "connected"
    /\ job_sent' = send(NewJob(NoBlock, 0))
    /\ UNCHANGED <<main_pc, task_pc, WEBSOCKET_CONNECTED, CURRENT_HEIGHT,
                   block_receiver_open, block_queue, thread_vars, retry_cause>>
    /\ UNCHANGED counters
    /\ UNCHANGED fvars

\* lines 238-240, 210-213, 227-229: a NewJob message whose template does not
\* decode; Block::from_hex fails, the ? returns the error before lines 241
\* and 243, and the loop ends
HandleUndecodableJob ==
    /\ task_pc = "connected"
    /\ WEBSOCKET_CONNECTED' = FALSE
    /\ task_pc' = "backoff"
    /\ retry_cause' = "bad_template"
    /\ UNCHANGED <<main_pc, CURRENT_HEIGHT, job_sent, block_receiver_open,
                   block_queue, thread_vars>>
    /\ UNCHANGED counters
    /\ UNCHANGED fvars

\* a BlockAccepted message counted as a rejection
HandleBlockAccepted_CountsRejected ==
    /\ task_pc = "connected"
    /\ BLOCKS_FOUND + BLOCKS_REJECTED < MaxReplies
    /\ BLOCKS_REJECTED' = BLOCKS_REJECTED + 1
    /\ UNCHANGED <<main_pc, task_pc, WEBSOCKET_CONNECTED, CURRENT_HEIGHT,
                   BLOCKS_FOUND, job_sent, block_receiver_open,
                   block_queue, thread_vars, retry_cause>>
    /\ UNCHANGED fvars

\* lines 203-209, 247-254: a BlockAccepted or a BlockRejected message;
\* handle_websocket_message returns Ok(false) and the loop goes on.  (The
\* messages of a run are followed up to MaxReplies of them.)
HandleBlockAccepted ==
    /\ task_pc = "connected"
    /\ BLOCKS_FOUND + BLOCKS_REJECTED < MaxReplies
    /\ BLOCKS_FOUND' = BLOCKS_FOUND + 1
    /\ UNCHANGED <<main_pc, task_pc, WEBSOCKET_CONNECTED, CURRENT_HEIGHT,
                   BLOCKS_REJECTED, job_sent, block_receiver_open,
                   block_queue, thread_vars, retry_cause>>
    /\ UNCHANGED fvars

HandleBlockRejected ==
    /\ task_pc = "connected"
    /\ BLOCKS_FOUND + BLOCKS_REJECTED < MaxReplies
    /\ BLOCKS_REJECTED' = BLOCKS_REJECTED + 1
    /\ UNCHANGED <<main_pc, task_pc, WEBSOCKET_CONNECTED, CURRENT_HEIGHT,
                   BLOCKS_FOUND, job_sent, block_receiver_open,
                   block_queue, thread_vars, retry_cause>>
    /\ UNCHANGED fvars

\* the blocks queued dropped when the loop ends
HandleLoopEnd_DropsBlocks ==
    /\ task_pc = "connected"
    /\ WEBSOCKET_CONNECTED' = FALSE
    /\ task_pc' = "backoff"
    /\ retry_cause' = "loop_ended"
    /\ block_queue' = <<>>
    /\ UNCHANGED <<main_pc, CURRENT_HEIGHT, job_sent, block_receiver_open,
                   thread_vars>>
    /\ UNCHANGED counters
    /\ UNCHANGED fvars

\* the loop left with WEBSOCKET_CONNECTED as it was
HandleLoopEnd_KeepsConnected ==
    /\ task_pc = "connected"
    /\ task_pc' = "backoff"
    /\ retry_cause' = "loop_ended"
    /\ UNCHANGED <<main_pc, WEBSOCKET_CONNECTED, CURRENT_HEIGHT, job_sent,
                   block_receiver_open, block_queue, thread_vars>>
    /\ UNCHANGED counters
    /\ UNCHANGED fvars

\* lines 205-213, 227-229: the loop ends on Close (lines 257-265), on a
\* message that is neither Text nor Close (266-269), on an inbound error or
\* on a text that is no SocketMessage (the ? of lines 234 and 237)
HandleLoopEnd ==
    /\ task_pc = "connected"
    /\ WEBSOCKET_CONNECTED' = FALSE
    /\ task_pc' = "backoff"
    /\ retry_cause' = "loop_ended"
    /\ UNCHANGED <<main_pc, CURRENT_HEIGHT, job_sent, block_receiver_open,
                   block_queue, thread_vars>>
    /\ UNCHANGED counters
    /\ UNCHANGED fvars

\* lines 216-223: a block found is taken from the channel and sent to the
\* daemon; a send error ends the loop (lines 220-221, 227-229)
SubmitBlock ==
    /\ task_pc = "connected"
    /\ block_queue # <<>>
    /\ block_queue' = Tail(block_queue)
    /\ \E sent \in BOOLEAN :
          IF sent THEN UNCHANGED <<WEBSOCKET_CONNECTED, task_pc, retry_cause>>
          ELSE /\ WEBSOCKET_CONNECTED' = FALSE
               /\ task_pc' = "backoff"
               /\ retry_cause' = "loop_ended"
    /\ UNCHANGED <<main_pc, CURRENT_HEIGHT, job_sent, block_receiver_open, thread_vars>>
    /\ UNCHANGED counters
    /\ UNCHANGED fvars

\* lines 137-145: run_prompt has returned; Exit is sent, the task is aborted
\* and main returns, which drops the task and block_receiver with it
MainExit ==
    /\ main_pc = "prompt"
    /\ main_pc' = "exited"
    /\ job_sent' = send(Exit)
    /\ task_pc' = "aborted"
    /\ retry_cause' = "none"
    /\ block_receiver_open' = FALSE
    /\ block_queue' = <<>>
    /\ UNCHANGED <<WEBSOCKET_CONNECTED, CURRENT_HEIGHT, thread_vars>>
    /\ UNCHANGED counters
    /\ UNCHANGED fvars

\* lines 119-131: every thread has subscribed and runs, the task is spawned
MinerStart ==
    /\ main_pc = "prompt"
    /\ task_pc = "connect"
    /\ WEBSOCKET_CONNECTED = FALSE
    /\ CURRENT_HEIGHT = 0
    /\ BLOCKS_FOUND = 0
    /\ BLOCKS_REJECTED = 0
    /\ retry_cause = "none"
    /\ job_sent = <<>>
    /\ job_next = [id \in ThreadIds |-> 0]
    /\ block_queue = <<>>
    /\ block_receiver_open = TRUE
    /\ thread_pc = [id \in ThreadIds |-> "poll"]
    /\ block = [id \in ThreadIds |-> NoBlock]
    /\ expected_difficulty = [id \in ThreadIds |-> 0]
    /\ block_hash = [id \in ThreadIds |-> NoHash]
    /\ received = [id \in ThreadIds |-> <<>>]
    /\ hashed_extra_nonce = [id \in ThreadIds |-> {}]
    /\ iterations_after_exit = [id \in ThreadIds |-> 0]
    /\ blocks_sent = [id \in ThreadIds |-> 0]

MinerInit ==
    /\ MinerStart
    /\ daemon_difficulties = JobDifficulties
    /\ blocks_sent_kept = FALSE

\* the miner variables while the difficulty functions are exercised
MinerIdle ==
    /\ daemon_difficulties = {}
    /\ blocks_sent_kept = FALSE
    /\ main_pc = "none"
    /\ task_pc = "none"
    /\ WEBSOCKET_CONNECTED = FALSE
    /\ CURRENT_HEIGHT = 0
    /\ BLOCKS_FOUND = 0
    /\ BLOCKS_REJECTED = 0
    /\ retry_cause = "none"
    /\ job_sent = <<>>
    /\ job_next = [id \in ThreadIds |-> 0]
    /\ block_queue = <<>>
    /\ block_receiver_open = FALSE
    /\ thread_pc = [id \in ThreadIds |-> "none"]
    /\ block = [id \in ThreadIds |-> NoBlock]
    /\ expected_difficulty = [id \in ThreadIds |-> 0]
    /\ block_hash = [id \in ThreadIds |-> NoHash]
    /\ received = [id \in ThreadIds |-> <<>>]
    /\ hashed_extra_nonce = [id \in ThreadIds |-> {}]
    /\ iterations_after_exit = [id \in ThreadIds |-> 0]
    /\ blocks_sent = [id \in ThreadIds |-> 0]

ThreadStep(id) ==
    \/ Poll(id)
    \/ LoopEmpty(id)
    \/ LoopConnected(id)
    \/ Send(id)

\* the steps of the miner but for the two reply messages, which write the
\* counters that no step reads
NextNoReplies ==
    \/ \E id \in ThreadIds : Poll(id)
    \/ \E id \in ThreadIds : LoopEmpty(id)
    \/ \E id \in ThreadIds : LoopConnected(id)
    \/ \E id \in ThreadIds : Send(id)
    \/ ConnectOk
    \/ ConnectFail
    \/ Backoff
    \/ HandleNewJob
    \/ HandleUndecodableJob
    \/ HandleLoopEnd
    \/ SubmitBlock
    \/ MainExit

Next ==
    \/ NextNoReplies
    \/ HandleBlockAccepted
    \/ HandleBlockRejected

\* ------------------------------------------------------------------------
\* The difficulty functions applied to sampled arguments
\* ------------------------------------------------------------------------

\* difficulties 0..MaxDifficulty are sampled, with the byte boundaries
MaxDifficulty == 8
\* calls of calculate_difficulty compared with each other in one run
MaxCalcCalls == 2

Difficulties == (0..MaxDifficulty) \cup {255, 256, 257, 65536}

Digests ==
    {Digest(hi, fill, lo) : hi \in {0, 1, 64, 85, 128, 255},
                            fill \in {0, 1, 85, 255},
                            lo \in {0, 1, 85, 86, 255}}

U64(n) == Pad(FromInt(n), 8)
U128(n) == Pad(FromInt(n), 16)
MaxU64 == [i \in 1..8 |-> 255]
MaxU128 == [i \in 1..16 |-> 255]

\* previous difficulties: 0, the spec's scenario, one above the minimum,
\* 6 * 2^48 (its product with easypart leaves the i64 range), 2^63, 2^64 - 1
PreviousDifficulties ==
    {U64(0), U64(1000), U64(200000), <<0, 6, 0, 0, 0, 0, 0, 0>>, TwoPow63, MaxU64}

ParentTimestamps == {U128(0), U128(1000), MaxU128}

NewTimestamps ==
    {U128(0), U128(1000), U128(8500), U128(16000), U128(23500), U128(31000),
     U128(31001), U128(151000), MaxU128}

DifficultyInit ==
    /\ overflow_checks \in BOOLEAN
    /\ \/ din \in [fn : {"check"}, hash : Digests, difficulty : Difficulties,
                   parent : {U128(0)}, prev : {U64(0)}]
       \/ din \in [fn : {"calc"}, hash : {<<>>}, difficulty : {0},
                   parent : ParentTimestamps, prev : PreviousDifficulties]
    /\ big_result = NoCall
    /\ check_result = NoCall
    /\ calc_calls = <<>>

\* the state of the difficulty variables while the miner runs
DifficultyIdle ==
    /\ overflow_checks = FALSE
    /\ din = [fn |-> "none", hash |-> <<>>, difficulty |-> 0,
              parent |-> U128(0), prev |-> U64(0)]
    /\ big_result = NoCall
    /\ check_result = NoCall
    /\ calc_calls = <<>>

CallDifficultyToBig ==
    /\ din.fn = "check"
    /\ big_result = NoCall
    /\ big_result' = difficulty_to_big(din.difficulty)
    /\ UNCHANGED <<overflow_checks, din, check_result, calc_calls>>
    /\ UNCHANGED <<mvars, threads_call, evars, nvars>>

CallCheckDifficulty ==
    /\ din.fn = "check"
    /\ check_result = NoCall
    /\ check_result' = check_difficulty(din.hash, din.difficulty)
    /\ UNCHANGED <<overflow_checks, din, big_result, calc_calls>>
    /\ UNCHANGED <<mvars, threads_call, evars, nvars>>

CallCalculateDifficulty ==
    /\ din.fn = "calc"
    /\ Len(calc_calls) < MaxCalcCalls
    /\ \E new_timestamp \in NewTimestamps :
          calc_calls' = Append(calc_calls,
              [new_timestamp |-> new_timestamp,
               result |-> calculate_difficulty(din.parent, new_timestamp, din.prev)])
    /\ UNCHANGED <<overflow_checks, din, big_result, check_result>>
    /\ UNCHANGED <<mvars, threads_call, evars, nvars>>

DifficultyNext ==
    \/ CallDifficultyToBig
    \/ CallCheckDifficulty
    \/ CallCalculateDifficulty

\* ------------------------------------------------------------------------
\* The thread count of main
\* ------------------------------------------------------------------------

\* values of num_cpus::get() from 1 to MaxDetected are sampled, with the
\* values around the range of u8
MaxDetected == 8

DetectedCounts == (1..MaxDetected) \cup {254, 255, 256, 257, 300, 511, 512, 513}

\* config.num_threads: u8
RequestedCounts == {0, 1, 2, 3, 255}

NoThreads == 256 * 256

\* lines 90-99: threads = config.num_threads, and when that is 0
\* threads = threads_count as u8, the low 8 bits of threads_count
threads_to_use(num_threads, threads_count) ==
    IF num_threads < 1 THEN threads_count % 256 ELSE num_threads

ThreadsInit ==
    threads_call \in [num_threads : RequestedCounts,
                      threads_count : DetectedCounts,
                      threads : {NoThreads}]

\* the miner modelled runs config.num_threads = threads on a machine of
\* as many CPUs
ThreadsIdle ==
    threads_call = [num_threads |-> threads, threads_count |-> threads,
                    threads |-> threads_to_use(threads, threads)]

CallThreadsToUse ==
    /\ threads_call.threads = NoThreads
    /\ threads_call' =
          [threads_call EXCEPT
              !.threads = threads_to_use(threads_call.num_threads,
                                         threads_call.threads_count)]
    /\ UNCHANGED <<dvars, mvars, evars, nvars>>

\* ------------------------------------------------------------------------
\* xelis_wallet/src/network_handler.rs
\* ------------------------------------------------------------------------

\* start() and stop() are called from two places at once
Callers == {1, 2}
\* the calls each of them makes in a run
MaxCalls == 2

NoHandle == 0

\* handle.is_finished()
is_finished(handle) == spawned[handle] # "running"

\* is_running(), lines 72-79, under the lock of task
is_running == task # NoHandle /\ ~is_finished(task)

\* the sync tasks that run
Running == {t \in 1..Len(spawned) : spawned[t] = "running"}

Returns(c, value) ==
    /\ caller_pc' = [caller_pc EXCEPT ![c] = "idle"]
    /\ calls_made' = [calls_made EXCEPT ![c] = @ + 1]
    /\ returned' = [returned EXCEPT ![c] = value]

\* start(), lines 45-47: is_running() takes the lock, answers and releases it
StartCheck(c) ==
    /\ caller_pc[c] = "idle"
    /\ calls_made[c] < MaxCalls
    /\ IF is_running
       THEN Returns(c, "AlreadyRunning")
       ELSE /\ caller_pc' = [caller_pc EXCEPT ![c] = "spawn"]
            /\ UNCHANGED <<calls_made, returned>>
    /\ UNCHANGED <<task, spawned, caller_handle>>
    /\ UNCHANGED <<dvars, threads_call, evars, mvars>>

\* start(), lines 49-50: tokio::spawn(zelf.start_syncing()), the right
\* operand of the assignment
StartSpawn(c) ==
    /\ caller_pc[c] = "spawn"
    /\ spawned' = Append(spawned, "running")
    /\ caller_handle' = [caller_handle EXCEPT ![c] = Len(spawned) + 1]
    /\ caller_pc' = [caller_pc EXCEPT ![c] = "store"]
    /\ UNCHANGED <<task, calls_made, returned>>
    /\ UNCHANGED <<dvars, threads_call, evars, mvars>>

\* start(), lines 50-52: the lock is taken and the handle stored; the
\* handle that was there is dropped, which leaves its task running
StartStore(c) ==
    /\ caller_pc[c] = "store"
    /\ task' = caller_handle[c]
    /\ caller_handle' = [caller_handle EXCEPT ![c] = NoHandle]
    /\ Returns(c, "Ok")
    /\ UNCHANGED spawned
    /\ UNCHANGED <<dvars, threads_call, evars, mvars>>

\* stop(), lines 55-65: the lock is held for the whole if let; the handle is
\* taken; a finished task is awaited, another is aborted
Stop(c) ==
    /\ caller_pc[c] = "idle"
    /\ calls_made[c] < MaxCalls
    /\ task' = NoHandle
    /\ spawned' = IF task # NoHandle /\ ~is_finished(task)
                  THEN [spawned EXCEPT ![task] = "aborted"]
                  ELSE spawned
    /\ Returns(c, "stopped")
    /\ UNCHANGED caller_handle
    /\ UNCHANGED <<dvars, threads_call, evars, mvars>>

\* start_syncing returns: an error of the daemon API or of the storage
\* leaves its loop through ? (lines 176-203)
TaskFinishes ==
    /\ \E t \in Running : spawned' = [spawned EXCEPT ![t] = "finished"]
    /\ UNCHANGED <<task, caller_pc, caller_handle, calls_made, returned>>
    /\ UNCHANGED <<dvars, threads_call, evars, mvars>>

\* NetworkHandler::new, lines 37-41
NetworkInit ==
    /\ task = NoHandle
    /\ spawned = <<>>
    /\ caller_pc = [c \in Callers |-> "idle"]
    /\ caller_handle = [c \in Callers |-> NoHandle]
    /\ calls_made = [c \in Callers |-> 0]
    /\ returned = [c \in Callers |-> "none"]

\* the wallet's variables while the miner or a function is exercised
NetworkIdle ==
    /\ task = NoHandle
    /\ spawned = <<>>
    /\ caller_pc = [c \in Callers |-> "none"]
    /\ caller_handle = [c \in Callers |-> NoHandle]
    /\ calls_made = [c \in Callers |-> 0]
    /\ returned = [c \in Callers |-> "none"]

NetworkNext ==
    \/ \E c \in Callers : StartCheck(c)
    \/ \E c \in Callers : StartSpawn(c)
    \/ \E c \in Callers : StartStore(c)
    \/ \E c \in Callers : Stop(c)
    \/ TaskFinishes

InitNetwork == NetworkInit /\ DifficultyIdle /\ MinerIdle /\ ThreadsIdle

SpecNetwork == InitNetwork /\ [][NetworkNext]_vars

InitThreads == ThreadsInit /\ DifficultyIdle /\ MinerIdle /\ NetworkIdle

SpecThreads == InitThreads /\ [][CallThreadsToUse]_vars

InitDifficulty == DifficultyInit /\ MinerIdle /\ ThreadsIdle /\ NetworkIdle

SpecDifficulty == InitDifficulty /\ [][DifficultyNext]_vars

Init == MinerInit /\ DifficultyIdle /\ ThreadsIdle /\ NetworkIdle

Spec == Init /\ [][Next]_vars

\* the miner with a daemon that sends difficulty 1, the history blocks_sent
\* kept
InitTrivial ==
    /\ MinerStart
    /\ daemon_difficulties = TrivialDifficulties
    /\ blocks_sent_kept = TRUE
    /\ DifficultyIdle /\ ThreadsIdle /\ NetworkIdle

SpecTrivial == InitTrivial /\ [][NextNoReplies]_vars

\* ------------------------------------------------------------------------
\* Properties of the difficulty functions
\* ------------------------------------------------------------------------

TwoPow256 == <<1>> \o Zeros(32)

\* C1: for every difficulty d > 0, difficulty_to_big(d) is Ok(t) where t is
\* exactly floor(2^256 / d), that is t * d <= 2^256 < (t + 1) * d.
C1_TargetIsFloor ==
    (big_result.tag # "None" /\ din.difficulty > 0) =>
        /\ big_result.tag = "Ok"
        /\ big_result.val = Strip(big_result.val)
        /\ BigLe(MulSmall(big_result.val, din.difficulty), TwoPow256)
        /\ BigLess(TwoPow256,
                   MulSmall(AddSmall(Pad(big_result.val, 34), 1).bytes, din.difficulty))

\* difficulty_to_big has returned for a difficulty that does not divide 2^256
C1_Witness ==
    /\ big_result.tag = "Ok"
    /\ din.difficulty = 3
    /\ big_result.val = [i \in 1..32 |-> 85]

\* C2: for difficulty 0, difficulty_to_big fails with DifficultyCannotBeZero
\* (it does not reach the division, which would panic on a zero divisor),
\* and check_difficulty returns that same error for every digest.
C2_ZeroRejected ==
    /\ (big_result.tag # "None" /\ din.difficulty = 0) =>
           big_result = BigErr("DifficultyCannotBeZero")
    /\ (check_result.tag # "None" /\ din.difficulty = 0) =>
           check_result = BoolErr("DifficultyCannotBeZero")

\* both functions have been called with difficulty 0 on a non-zero digest
C2_Witness ==
    /\ din.difficulty = 0
    /\ din.hash = Digest(255, 255, 255)
    /\ big_result.tag = "Err"
    /\ check_result.tag = "Err"

\* C3: for every digest h and difficulty d > 0, check_difficulty(h, d) is
\* Ok(TRUE) exactly when h read as a big-endian unsigned integer is
\* <= floor(2^256 / d), and Ok(FALSE) otherwise.  For integers
\* h <= floor(2^256 / d) is h * d <= 2^256.
C3_CheckIsBigEndianLe ==
    (check_result.tag # "None" /\ din.difficulty > 0) =>
        /\ check_result.tag = "Ok"
        /\ check_result.val = BigLe(MulSmall(din.hash, din.difficulty), TwoPow256)

\* check_difficulty has accepted a digest equal to the target of difficulty 3
C3_Witness ==
    /\ din.difficulty = 3
    /\ din.hash = Digest(85, 85, 85)
    /\ check_result = BoolOk(TRUE)

\* the solve time new - parent of a call with parent <= new
ValidCall(c) == BigLe(din.parent, c.new_timestamp)
SolveTime(c) == WrappingSub(c.new_timestamp, din.parent).bytes

\* C4: for every parent_timestamp <= new_timestamp and every
\* previous_difficulty, calculate_difficulty returns a value that is
\* >= MINIMUM_DIFFICULTY.
C4_AtLeastMinimum ==
    \A i \in 1..Len(calc_calls) :
        ValidCall(calc_calls[i]) =>
            /\ calc_calls[i].result.tag = "Value"
            /\ BigLe(U64(MINIMUM_DIFFICULTY), calc_calls[i].result.val)

\* C5: for a fixed previous_difficulty, calculate_difficulty is monotonically
\* non-increasing in the solve time: of two calls that return, the one with
\* the shorter solve time returns the larger or equal difficulty.
C5_MonotoneInSolveTime ==
    \A i, j \in 1..Len(calc_calls) :
        (/\ ValidCall(calc_calls[i])
         /\ ValidCall(calc_calls[j])
         /\ BigLe(SolveTime(calc_calls[i]), SolveTime(calc_calls[j]))
         /\ calc_calls[i].result.tag = "Value"
         /\ calc_calls[j].result.tag = "Value")
        => BigLe(calc_calls[j].result.val, calc_calls[i].result.val)

\* C6: every solve time >= 2 * BLOCK_TIME_MILLIS gives the outcome of the
\* solve time 2 * BLOCK_TIME_MILLIS: two calls with the same parent and
\* previous difficulty whose solve times are both >= 2 * BLOCK_TIME_MILLIS
\* have the same outcome.
C6_ClampedAtTwoBlockTimes ==
    \A i, j \in 1..Len(calc_calls) :
        (/\ ValidCall(calc_calls[i])
         /\ ValidCall(calc_calls[j])
         /\ BigLe(U128(2 * BLOCK_TIME_MILLIS), SolveTime(calc_calls[i]))
         /\ BigLe(U128(2 * BLOCK_TIME_MILLIS), SolveTime(calc_calls[j])))
        => calc_calls[i].result = calc_calls[j].result

\* a call with solve time exactly 2 * BLOCK_TIME_MILLIS and a call with
\* solve time 10 * BLOCK_TIME_MILLIS, both returning more than the minimum
C6_Witness ==
    /\ din.parent = U128(1000)
    /\ din.prev = U64(200000)
    /\ Len(calc_calls) = 2
    /\ calc_calls[1].new_timestamp = U128(1000 + 2 * BLOCK_TIME_MILLIS)
    /\ calc_calls[2].new_timestamp = U128(1000 + 10 * BLOCK_TIME_MILLIS)
    /\ calc_calls[1].result.tag = "Value"
    /\ BigLess(U64(MINIMUM_DIFFICULTY), calc_calls[1].result.val)

\* C7: a call with parent_timestamp > new_timestamp is either rejected (the
\* overflow panic of a checked build is counted as a rejection here) or
\* gives the outcome of a solve time of zero.
C7_NegativeSolveTimeRejectedOrZero ==
    \A i \in 1..Len(calc_calls) :
        BigLess(calc_calls[i].new_timestamp, din.parent) =>
            \/ calc_calls[i].result.tag = "Panic"
            \/ calc_calls[i].result
                 = calculate_difficulty(din.parent, din.parent, din.prev)

\* ------------------------------------------------------------------------
\* Properties of the miner
\* ------------------------------------------------------------------------

\* the thread is at a step it can take: it is not stopped, not waiting in
\* blocking_send, and its search has not reached the last nonce followed
Runnable(id) ==
    \/ thread_pc[id] \in {"poll", "loop_connected"}
    \/ thread_pc[id] = "loop_empty" /\ SearchFollowed(id)
    \/ thread_pc[id] = "send" /\ blocking_send_returns

HoldsJob(id) == thread_pc[id] \in {"loop_empty", "loop_connected", "send"}

\* C8: two threads with distinct ids never hash the same (extra-nonce, nonce)
\* combination: every hash of thread id is of a block whose last extra-nonce
\* byte is id, the byte keeps that value while the thread works on the job,
\* and a step that changes one thread's block changes no other thread's.
C8_DistinctSearchSpace ==
    /\ [](\A id \in ThreadIds :
            /\ hashed_extra_nonce[id] \subseteq {id}
            /\ HoldsJob(id) => block[id].extra_nonce = id)
    /\ [](\A a, b \in ThreadIds :
            a # b => hashed_extra_nonce[a] \cap hashed_extra_nonce[b] = {})
    /\ [][\A a, b \in ThreadIds :
            (a # b /\ block'[a] # block[a]) => block'[b] = block[b]]_vars

\* both threads have hashed the same job at the same nonce, after an
\* increment of the nonce
C8_Witness ==
    /\ HoldsJob(0) /\ HoldsJob(1)
    /\ block[0].height = block[1].height
    /\ block[0].nonce = 1 /\ block[1].nonce = 1
    /\ hashed_extra_nonce[0] # {} /\ hashed_extra_nonce[1] # {}

\* every thread runs on an OS thread of its own: one that can take a step
\* takes it
\* (the reply messages are left out: the counters they write are read by
\* no step)
FairSpec ==
    Init /\ [][NextNoReplies]_vars /\ \A id \in ThreadIds : WF_vars(ThreadStep(id))

\* the runtime polls the task as well: its sleep ends
FairTaskSpec == FairSpec /\ WF_vars(Backoff)

\* and connect_async returns, and the select of the connected loop takes a
\* block that is ready
FairSupervisorSpec ==
    FairTaskSpec /\ WF_vars(ConnectOk \/ ConnectFail) /\ WF_vars(SubmitBlock)

\* the select! of lines 202-224 takes a block that is ready again and again
\* sooner or later, also when each connection is short
FairSelectSpec == FairSpec /\ SF_vars(SubmitBlock)

\* the loop iterations a thread can begin after Exit was sent: one while
\* turn under way, one Lagged turn, and for each notification retained a
\* turn of 'main and, but for Exit, a while turn
MaxIterationsAfterExit == 2 * BroadcastCapacity + 1

C11_RepliesCounted ==
    [][/\ HandleBlockAccepted =>
            /\ BLOCKS_FOUND' = BLOCKS_FOUND + 1
            /\ BLOCKS_REJECTED' = BLOCKS_REJECTED
       /\ HandleBlockRejected =>
            /\ BLOCKS_REJECTED' = BLOCKS_REJECTED + 1
            /\ BLOCKS_FOUND' = BLOCKS_FOUND
       /\ counters' # counters =>
            /\ BLOCKS_FOUND' + BLOCKS_REJECTED' = BLOCKS_FOUND + BLOCKS_REJECTED + 1
            /\ CURRENT_HEIGHT' = CURRENT_HEIGHT
            /\ WEBSOCKET_CONNECTED' = WEBSOCKET_CONNECTED
            /\ job_sent' = job_sent
            /\ task_pc = "connected" /\ task_pc' = "connected"]_vars

\* a BlockAccepted message was handled after a job, and the task is still in
\* its connected loop
C11_Witness ==
    /\ BLOCKS_FOUND = 1
    /\ BLOCKS_REJECTED = 0
    /\ CURRENT_HEIGHT = 1
    /\ task_pc = "connected"

\* C12: a connection attempt that fails leaves WEBSOCKET_CONNECTED false
\* and takes the task to its sleep, from which the task goes nowhere but to
\* a new connection attempt; the new attempt may fail again, any number of
\* times; unless main exits the sleep is followed by the new attempt, and
\* the task ends only by the abort of main.
C12_FailedConnectRetried ==
    /\ [][ConnectFail =>
            /\ task_pc' = "backoff"
            /\ WEBSOCKET_CONNECTED = FALSE /\ WEBSOCKET_CONNECTED' = FALSE
            /\ UNCHANGED <<job_sent, CURRENT_HEIGHT, counters, thread_vars>>]_vars
    /\ [][(task_pc = "backoff" /\ task_pc' # "backoff") =>
            (task_pc' = "connect" \/ main_pc' = "exited")]_vars
    /\ [](task_pc = "connect" => ENABLED ConnectFail)
    /\ [](task_pc = "aborted" <=> main_pc = "exited")
    /\ (task_pc = "backoff" /\ retry_cause = "connect_failed")
          ~> (task_pc = "connect" \/ main_pc = "exited")

\* an attempt to connect again has failed after an earlier connection
\* had delivered a job
C12_Witness ==
    /\ task_pc = "backoff"
    /\ retry_cause = "connect_failed"
    /\ CURRENT_HEIGHT = 1
    /\ ~WEBSOCKET_CONNECTED

\* C13: a NewJob message whose template does not decode is not forwarded:
\* handling it sends nothing on the broadcast channel and leaves
\* CURRENT_HEIGHT as it was, so every NewJob notification ever sent carries
\* a decoded template and CURRENT_HEIGHT is the height of the last one sent.
C13_UndecodableJobDropped ==
    /\ [][HandleUndecodableJob =>
            /\ job_sent' = job_sent
            /\ CURRENT_HEIGHT' = CURRENT_HEIGHT
            /\ UNCHANGED <<job_next, thread_pc, block>>]_vars
    /\ [](\A i \in 1..Len(job_sent) :
            job_sent[i].kind = "NewJob" => job_sent[i].job = Template(i))
    /\ [](CURRENT_HEIGHT = JobsSent)

\* a job was forwarded, then a NewJob message with a template that does not
\* decode was handled: one notification sent, the height that of the job
C13_Witness ==
    /\ retry_cause = "bad_template"
    /\ Len(job_sent) = 1
    /\ job_sent[1].kind = "NewJob"
    /\ CURRENT_HEIGHT = 1

\* thread id receives with this step a job for which check_difficulty
\* returns an error
ReceivesErrorJob(id) ==
    /\ thread_pc[id] = "poll"
    /\ job_next'[id] = job_next[id] + 1
    /\ job_sent[job_next[id] + 1].kind = "NewJob"
    /\ CheckResults[Digest(0, 0, 1), job_sent[job_next[id] + 1].difficulty].tag = "Err"

\* C14: when check_difficulty returns an error for the job a thread has
\* just received, the thread is back at the top of its loop with that step:
\* it has queued no block and is not stopped, no other thread and neither
\* the task nor main has changed its position, and the thread can take its
\* next step.  No thread ever holds a job whose check returns an error.
C14_DifficultyErrorAbandonsJob ==
    /\ [][\A id \in ThreadIds :
            ReceivesErrorJob(id) =>
                /\ thread_pc'[id] = "poll"
                /\ block'[id] = NoBlock
                /\ block_queue' = block_queue
                /\ \A other \in ThreadIds \ {id} : thread_pc'[other] = thread_pc[other]
                /\ task_pc' = task_pc
                /\ main_pc' = main_pc]_vars
    /\ [](\A id \in ThreadIds :
            HoldsJob(id) =>
                CheckResults[block_hash[id], expected_difficulty[id]].tag = "Ok")
    /\ [](\A id \in ThreadIds : thread_pc[id] = "poll" => Runnable(id))

\* a thread received a job of difficulty 0 and after it the next job, which
\* it is working on
C14_Witness ==
    \E id \in ThreadIds :
        /\ received[id] = <<1, 2>>
        /\ job_sent[1].kind = "NewJob" /\ job_sent[1].difficulty = 0
        /\ HoldsJob(id)
        /\ block[id].height = 2

Min(a, b) == IF a <= b THEN a ELSE b

\* C15: when no thread count is requested (num_threads = 0) the thread
\* count is min(detected, 255), and it is not 0 when at least one CPU is
\* detected.
C15_ThreadsAreDetectedCappedAt255 ==
    (threads_call.threads # NoThreads /\ threads_call.num_threads = 0) =>
        /\ threads_call.threads = Min(threads_call.threads_count, 255)
        /\ threads_call.threads_count >= 1 => threads_call.threads >= 1

\* thread id is in blocking_send and the call does not return
WaitsInSend(id) == thread_pc[id] = "send" /\ ~blocking_send_returns

TakesJob(id) == thread_pc[id] = "poll" /\ HoldsJob(id)'

\* C17: a block is put on the channel of blocks only by a thread in
\* blocking_send, and it is that thread's block as it was last hashed; that
\* block is the job of a notification the thread received with its own id
\* as extra nonce, changed since in nonce and timestamp only; its hash
\* passes check_difficulty for the difficulty of that notification; no
\* thread's step changes another thread's block or a notification.
C17_SentBlockIsSolvedOwnJob ==
    /\ [][Len(block_queue') > Len(block_queue) =>
            \E id \in ThreadIds :
                /\ thread_pc[id] = "send"
                /\ block_queue' = Append(block_queue, block[id])]_vars
    /\ [](\A id \in ThreadIds :
            thread_pc[id] = "send" =>
                /\ block[id].extra_nonce = id
                /\ received[id] # <<>>
                /\ CheckResults[block_hash[id], expected_difficulty[id]] = BoolOk(TRUE))
    /\ [][\A id \in ThreadIds :
            TakesJob(id) =>
                LET message == job_sent[job_next'[id]]
                IN  /\ message.kind = "NewJob"
                    /\ received'[id] = Append(received[id], job_next'[id])
                    /\ block'[id] = set_extra_nonce(message.job, id)
                    /\ expected_difficulty'[id] = message.difficulty]_vars
    /\ [][\A id \in ThreadIds :
            (HoldsJob(id) /\ HoldsJob(id)') =>
                /\ block'[id].height = block[id].height
                /\ block'[id].extra_nonce = block[id].extra_nonce
                /\ expected_difficulty'[id] = expected_difficulty[id]
                /\ received'[id] = received[id]]_vars
    /\ [][\A id \in ThreadIds :
            thread_pc'[id] # thread_pc[id] =>
                /\ job_sent' = job_sent
                /\ \A other \in ThreadIds \ {id} : block'[other] = block[other]]_vars
    /\ [](\A i \in 1..Len(block_queue) :
            /\ block_queue[i].extra_nonce \in ThreadIds
            /\ block_queue[i].height \in 1..JobsSent)

\* the channel holds a block of job 2 found by thread 1 after an increment
\* of the nonce, for a difficulty that is not 0
C17_Witness ==
    /\ block_queue # <<>>
    /\ block_queue[Len(block_queue)] =
          [height |-> 2, extra_nonce |-> 1, nonce |-> 1, timestamp |-> "now"]
    /\ received[1] = <<1, 2>>
    /\ thread_pc[1] = "poll"

\* thread id hashes its block once more with this step (lines 310-313)
HashesAgain(id) == HoldsJob(id) /\ block'[id].nonce = block[id].nonce + 1

\* thread id gives up the job it holds with this step
Abandons(id) ==
    /\ thread_pc'[id] = "poll"
    /\ block'[id] = NoBlock
    /\ block_queue' = block_queue

\* C18: a thread hashes its block again only from the second operand of
\* line 306 with WEBSOCKET_CONNECTED true, which it reaches only from the
\* first operand with its receiver empty, and every hash sends it back
\* before the first operand or out of the loop; with a notification
\* pending at the first operand, or WEBSOCKET_CONNECTED false at the
\* second, its step takes it to the top of 'main with no block queued.  The
\* job a thread holds is the last it received, so no later block of this
\* thread is for the job given up.
C18_ChecksBetweenHashes ==
    /\ [][\A id \in ThreadIds :
            HashesAgain(id) =>
                /\ thread_pc[id] = "loop_connected"
                /\ WEBSOCKET_CONNECTED
                /\ thread_pc'[id] # "loop_connected"]_vars
    /\ [][\A id \in ThreadIds :
            (thread_pc'[id] = "loop_connected" /\ thread_pc[id] # "loop_connected") =>
                /\ thread_pc[id] = "loop_empty"
                /\ is_empty(id)]_vars
    /\ [][\A id \in ThreadIds :
            (/\ thread_pc'[id] # thread_pc[id]
             /\ \/ thread_pc[id] = "loop_empty" /\ ~is_empty(id)
                \/ thread_pc[id] = "loop_connected" /\ ~WEBSOCKET_CONNECTED)
                => Abandons(id)]_vars
    /\ [](\A id \in ThreadIds :
            HoldsJob(id) =>
                /\ received[id] # <<>>
                /\ block[id].height = received[id][Len(received[id])])
    /\ [](\A id \in ThreadIds :
            \A i \in 1..Len(received[id]) : \A j \in 1..Len(received[id]) :
                i < j => received[id][i] < received[id][j])

\* after a hash of job 1 that did not meet the target: thread 0 is at the
\* second operand with WEBSOCKET_CONNECTED false, and thread 1 is at the
\* first operand with job 2 pending
C18_Witness ==
    /\ thread_pc[0] = "loop_connected"
    /\ block[0].height = 1
    /\ ~WEBSOCKET_CONNECTED
    /\ thread_pc[1] = "loop_empty"
    /\ block[1].height = 1
    /\ ~is_empty(1)

\* the task leaves its connected loop with this step while main goes on
LoopEnds == task_pc = "connected" /\ task_pc' # "connected" /\ main_pc' = "prompt"

\* C19: the step with which the connected loop ends, main not exiting,
\* stores false in WEBSOCKET_CONNECTED and puts the task in its sleep, and
\* changes the position of no thread; WEBSOCKET_CONNECTED stays false
\* through that sleep; the sleep is left for a new attempt to connect only
\* (or by main's exit), and it is left; the attempt can succeed; the task is
\* gone only when main has exited and a thread is stopped only after Exit.
C19_LoopEndRetriesAfterBackoff ==
    /\ [][LoopEnds =>
            /\ ~WEBSOCKET_CONNECTED'
            /\ task_pc' = "backoff"
            /\ retry_cause' \in {"loop_ended", "bad_template"}
            /\ thread_pc' = thread_pc]_vars
    /\ [](task_pc = "backoff" /\ retry_cause # "connect_failed" => ~WEBSOCKET_CONNECTED)
    /\ [][(task_pc = "backoff" /\ task_pc' # "backoff") =>
            \/ task_pc' = "connect" /\ WEBSOCKET_CONNECTED' = WEBSOCKET_CONNECTED
            \/ main_pc' = "exited"]_vars
    /\ (task_pc = "backoff" /\ retry_cause = "loop_ended")
            ~> (task_pc = "connect" \/ main_pc = "exited")
    /\ [](task_pc = "connect" => ENABLED ConnectOk)
    /\ [](task_pc = "aborted" => main_pc = "exited")
    /\ [](\A id \in ThreadIds : thread_pc[id] = "stopped" => ExitSent)

\* the loop has ended: the task is in its sleep with WEBSOCKET_CONNECTED
\* false, one thread holds a job and one is at the top of its loop
C19_Witness ==
    /\ task_pc = "backoff"
    /\ retry_cause = "loop_ended"
    /\ ~WEBSOCKET_CONNECTED
    /\ \E id \in ThreadIds : HoldsJob(id)
    /\ \E id \in ThreadIds : thread_pc[id] = "poll" /\ received[id] # <<>>

\* the notifications thread id has yet to receive
Pending(id) == Len(job_sent) - job_next[id]

\* a NewJob notification is sent with this step
NewJobSent == job_sent' # job_sent /\ job_sent'[Len(job_sent')].kind = "NewJob"

\* C20: every step that sends a notification sends exactly one; a step that
\* sends a NewJob is the connected task's, the job is a decoded template,
\* CURRENT_HEIGHT becomes its height, every thread has one notification more
\* pending than before (its receiver is not empty), and the task stays in
\* its connected loop with WEBSOCKET_CONNECTED true.  Every thread holds
\* its receiver from the start: none has a notification behind it that it
\* did not have pending.
C20_NewJobBroadcastOnce ==
    /\ [][job_sent' # job_sent => Len(job_sent') = Len(job_sent) + 1]_vars
    /\ [][NewJobSent =>
            LET message == job_sent'[Len(job_sent')]
            IN  /\ task_pc = "connected"
                /\ message.job = Template(message.job.height)
                /\ message.job.height >= 1
                /\ message.difficulty \in daemon_difficulties
                /\ CURRENT_HEIGHT' = message.job.height
                /\ \A id \in ThreadIds :
                      /\ Pending(id)' = Pending(id) + 1
                      /\ ~is_empty(id)'
                      /\ thread_pc'[id] = thread_pc[id]
                /\ task_pc' = "connected"
                /\ WEBSOCKET_CONNECTED' /\ WEBSOCKET_CONNECTED]_vars
    /\ [](\A id \in ThreadIds : job_next[id] \in 0..Len(job_sent))
    /\ [](Len(job_sent) = 0 => \A id \in ThreadIds : thread_pc[id] = "poll")

\* job 2 has been sent: CURRENT_HEIGHT is 2, thread 0 has both jobs pending
\* and thread 1, which took job 1, has job 2 pending, and the task is in
\* its connected loop
C20_Witness ==
    /\ Len(job_sent) = 2
    /\ job_sent[2] = NewJob(Template(2), 2)
    /\ CURRENT_HEIGHT = 2
    /\ Pending(0) = 2
    /\ Pending(1) = 1
    /\ HoldsJob(1)
    /\ task_pc = "connected"

\* C21 as stated: WEBSOCKET_CONNECTED is false whenever the task is
\* connecting or in its sleep, and true only while the task is in its
\* connected loop.
C21_ConnectedOnlyInLoop ==
    /\ task_pc \in {"connect", "backoff"} => ~WEBSOCKET_CONNECTED
    /\ WEBSOCKET_CONNECTED => task_pc = "connected"

\* C21, amended: only a step of the task changes WEBSOCKET_CONNECTED (no
\* thread's position and not main's changes with it): to true on entering
\* the connected loop, to false on leaving it for the sleep.  It is false
\* whenever the task is connecting or in its sleep and true whenever the
\* task is in its connected loop; it is also true after main has aborted
\* the task in its connected loop, since task.abort() stores nothing.
C21_ConnectedWrittenByTask ==
    /\ [][WEBSOCKET_CONNECTED' # WEBSOCKET_CONNECTED =>
            /\ thread_pc' = thread_pc
            /\ main_pc' = main_pc
            /\ IF WEBSOCKET_CONNECTED'
               THEN task_pc = "connect" /\ task_pc' = "connected"
               ELSE task_pc = "connected" /\ task_pc' = "backoff"]_vars
    /\ [](task_pc \in {"connect", "backoff"} => ~WEBSOCKET_CONNECTED)
    /\ [](task_pc = "connected" => WEBSOCKET_CONNECTED)
    /\ [](WEBSOCKET_CONNECTED =>
            \/ task_pc = "connected"
            \/ task_pc = "aborted" /\ main_pc = "exited")
    /\ [][main_pc' # main_pc => WEBSOCKET_CONNECTED' = WEBSOCKET_CONNECTED]_vars

\* main has exited and aborted the task in its connected loop:
\* WEBSOCKET_CONNECTED is still true and a thread that holds a job reads it
C21_Witness ==
    /\ main_pc = "exited"
    /\ task_pc = "aborted"
    /\ WEBSOCKET_CONNECTED
    /\ \E id \in ThreadIds : thread_pc[id] = "loop_connected"

\* thread id receives with this step a job of difficulty 1
ReceivesTrivialJob(id) ==
    /\ thread_pc[id] = "poll"
    /\ Len(received'[id]) = Len(received[id]) + 1
    /\ job_sent[job_next'[id]].kind = "NewJob"
    /\ job_sent[job_next'[id]].difficulty = 1

\* C22: check_difficulty is Ok(true) for every digest at difficulty 1.  The
\* step with which a thread receives a job of difficulty 1 takes it to
\* blocking_send with the job as received but for the extra nonce (nonce
\* and timestamp untouched: one hash), whatever WEBSOCKET_CONNECTED and its
\* receiver are; with such a job a thread is never in the while loop; and
\* when blocking_send returns with block_receiver alive, that block is the
\* last of the channel.
C22_TrivialJobSentAfterOneHash ==
    /\ [](\A digest \in HashDigests : CheckResults[digest, 1] = BoolOk(TRUE))
    /\ [][\A id \in ThreadIds :
            ReceivesTrivialJob(id) =>
                /\ thread_pc'[id] = "send"
                /\ block'[id] = set_extra_nonce(job_sent[job_next'[id]].job, id)
                /\ block'[id].nonce = 0
                /\ expected_difficulty'[id] = 1]_vars
    /\ [](\A id \in ThreadIds :
            (HoldsJob(id) /\ expected_difficulty[id] = 1) =>
                /\ thread_pc[id] = "send"
                /\ block[id].nonce = 0
                /\ block[id].timestamp = "template")
    /\ [][\A id \in ThreadIds :
            (/\ thread_pc[id] = "send"
             /\ expected_difficulty[id] = 1
             /\ thread_pc'[id] # "send") =>
                /\ thread_pc'[id] = "poll"
                /\ block_receiver_open =>
                      block_queue' = Append(block_queue, block[id])]_vars

\* a thread is in blocking_send with a job of difficulty 1 whose hash is the
\* largest digest, WEBSOCKET_CONNECTED is false and the next job is pending
C22_Witness ==
    \E id \in ThreadIds :
        /\ thread_pc[id] = "send"
        /\ expected_difficulty[id] = 1
        /\ block_hash[id] = Digest(255, 255, 255)
        /\ ~WEBSOCKET_CONNECTED
        /\ ~is_empty(id)

\* thread id receives Exit with this step
ReceivesExit(id) ==
    /\ thread_pc[id] = "poll"
    /\ received'[id] = Append(received[id], job_next'[id])
    /\ job_sent[job_next'[id]].kind = "Exit"

\* thread id takes a step with this step
Steps(id) ==
    \/ thread_pc'[id] # thread_pc[id]
    \/ job_next'[id] # job_next[id]
    \/ iterations_after_exit'[id] # iterations_after_exit[id]

\* C23: a thread becomes stopped only with the step that receives Exit,
\* and no thread is ever in another final position.  The step of a thread
\* takes it to the top of 'main, not stopped, when it receives a job whose
\* check is an error, when it finds WEBSOCKET_CONNECTED false or a
\* notification pending in its search, when blocking_send fails, and when
\* try_recv returns no notification (Empty or Lagged).
C23_OnlyExitStopsThread ==
    /\ [][\A id \in ThreadIds :
            (thread_pc'[id] = "stopped" /\ thread_pc[id] # "stopped")
                => ReceivesExit(id)]_vars
    /\ [](\A id \in ThreadIds :
            thread_pc[id] \in {"poll", "loop_empty", "loop_connected", "send", "stopped"})
    /\ [](\A id \in ThreadIds :
            thread_pc[id] = "stopped" =>
                /\ received[id] # <<>>
                /\ job_sent[received[id][Len(received[id])]].kind = "Exit")
    /\ [][\A id \in ThreadIds :
            (/\ Steps(id)
             /\ \/ ReceivesErrorJob(id)
                \/ thread_pc[id] = "loop_connected" /\ ~WEBSOCKET_CONNECTED
                \/ thread_pc[id] = "loop_empty" /\ ~is_empty(id)
                \/ thread_pc[id] = "send" /\ ~block_receiver_open
                \/ thread_pc[id] = "poll" /\ received'[id] = received[id])
                => thread_pc'[id] = "poll"]_vars

\* after main's exit: one thread has stopped on Exit; the other, which
\* lagged and lost job 1, is in a blocking_send that fails
C23_Witness ==
    \E id \in ThreadIds : \E other \in ThreadIds :
        /\ thread_pc[id] = "stopped"
        /\ thread_pc[other] = "send"
        /\ ~block_receiver_open
        /\ received[other] = <<2>>

\* the NewJob notifications thread id has received: Exit, when sent, is the
\* last notification
NewJobsReceived(id) ==
    Cardinality({i \in 1..Len(received[id]) :
                    ~(ExitSent /\ received[id][i] = Len(job_sent))})

\* C24: the blocks a thread has sent, and the job it holds, are together at
\* most the NewJob notifications it has received.  The step that sends a
\* block takes the thread to the top of 'main without its block; a thread
\* comes to hold a job only with the step that receives a NewJob, and its
\* block changes only with that step, with a hash of the job it holds, or
\* when it gives the job up.
C24_OneBlockPerJob ==
    /\ [](blocks_sent_kept)
    /\ [](\A id \in ThreadIds :
            blocks_sent[id] + (IF HoldsJob(id) THEN 1 ELSE 0) <= NewJobsReceived(id))
    /\ [][\A id \in ThreadIds :
            blocks_sent'[id] # blocks_sent[id] =>
                /\ blocks_sent'[id] = blocks_sent[id] + 1
                /\ thread_pc[id] = "send"
                /\ block_queue' = Append(block_queue, block[id])
                /\ thread_pc'[id] = "poll"
                /\ block'[id] = NoBlock]_vars
    /\ [][\A id \in ThreadIds :
            (HoldsJob(id)' /\ ~HoldsJob(id)) =>
                /\ thread_pc[id] = "poll"
                /\ Len(received'[id]) = Len(received[id]) + 1
                /\ job_sent[job_next'[id]].kind = "NewJob"]_vars
    /\ [][\A id \in ThreadIds :
            block'[id] # block[id] =>
                \/ TakesJob(id)
                \/ HashesAgain(id)
                \/ HoldsJob(id) /\ thread_pc'[id] = "poll" /\ block'[id] = NoBlock]_vars

\* thread 0 has received two jobs and sent a block for each, and both blocks
\* are in the channel
C24_Witness ==
    /\ received[0] = <<1, 2>>
    /\ blocks_sent[0] = 2
    /\ Len(block_queue) = 2
    /\ thread_pc[0] = "poll"

\* the block thread id found for the job of this height is in the channel
InQueue(height, id) ==
    \E i \in 1..Len(block_queue) :
        block_queue[i].height = height /\ block_queue[i].extra_nonce = id

\* C25: the channel of blocks loses a block only from its head, with a step
\* of the task in its connected loop, one block a step (or all of them when
\* main exits and drops block_receiver); every other step, the end of the
\* connected loop included, keeps the blocks queued and their order.  The
\* blocks queued are of different threads or jobs, and a thread holds a job
\* it has no block in the channel for.  When the task is in its connected
\* loop again and again, the channel is emptied after every block queued,
\* so that every block in the channel leaves it.
C25_QueuedBlocksSubmittedOnce ==
    /\ [][Len(block_queue') < Len(block_queue) =>
            \/ /\ task_pc = "connected"
               /\ block_queue' = Tail(block_queue)
               /\ main_pc' = main_pc
            \/ main_pc' = "exited" /\ main_pc = "prompt"]_vars
    /\ [][Len(block_queue') >= Len(block_queue) =>
            SubSeq(block_queue', 1, Len(block_queue)) = block_queue]_vars
    /\ [][(task_pc = "connected" /\ task_pc' = "backoff") =>
            \/ block_queue' = block_queue
            \/ block_queue' = Tail(block_queue) /\ retry_cause' = "loop_ended"]_vars
    /\ [](\A i \in 1..Len(block_queue) : \A j \in 1..Len(block_queue) :
            (/\ block_queue[i].height = block_queue[j].height
             /\ block_queue[i].extra_nonce = block_queue[j].extra_nonce) => i = j)
    /\ [](\A id \in ThreadIds :
            HoldsJob(id) => ~InQueue(block[id].height, id))
    /\ []<>(task_pc = "connected")
            => ((block_queue # <<>>) ~> (block_queue = <<>>))

\* a block found for job 1 is in the channel while the task, its loop
\* ended, is in its sleep with WEBSOCKET_CONNECTED false
C25_Witness ==
    /\ block_queue # <<>>
    /\ block_queue[1].height = 1
    /\ task_pc = "backoff"
    /\ retry_cause = "loop_ended"
    /\ CURRENT_HEIGHT = 2

\* C26: at most one sync task runs, and every sync task that runs is the one
\* whose handle is in task or is about to be stored there by the start()
\* that spawned it (none runs with its handle overwritten or lost); when
\* is_running() is true a task runs.
C26_AtMostOneSyncTask ==
    /\ Cardinality(Running) <= 1
    /\ \A t \in Running :
          task = t \/ \E c \in Callers : caller_handle[c] = t
    /\ is_running => Running = {task}

Positions(seq) == {seq[i] : i \in 1..Len(seq)}

\* C10 as stated: every notification sent before the one a thread reads next
\* was returned to it by try_recv, once and in send order.
C10_EveryNotificationReceived ==
    \A id \in ThreadIds : received[id] = [i \in 1..job_next[id] |-> i]

\* C10, amended: the notifications try_recv returns to a thread are returned
\* once each and in send order, and a notification the thread misses had
\* already left the BroadcastCapacity notifications the channel retains; the
\* newest BroadcastCapacity notifications are missed by no thread.
C10_InOrderUnlessLagged ==
    \A id \in ThreadIds :
        /\ \A i, j \in 1..Len(received[id]) : i < j => received[id][i] < received[id][j]
        /\ Positions(received[id]) \subseteq 1..job_next[id]
        /\ \A p \in (1..job_next[id]) \ Positions(received[id]) :
              p <= Len(job_sent) - BroadcastCapacity

\* a thread has missed the first notification and received the later ones
C10_Witness ==
    \E id \in ThreadIds :
        /\ Len(received[id]) >= 2
        /\ received[id][1] > 1
        /\ job_next[id] = Len(job_sent)

====
